---- MODULE Spec2Model ----
(***************************************************************************)
(* Model of the Zabbix export utility (src/main.go).                       *)
(*                                                                         *)
(* One run of main(): load the environment, log in, enumerate the hosts,   *)
(* and for every host record project it, create its directory, write       *)
(* host.xml, fetch and write the metrics, fetch and write the triggers.    *)
(* The remote server and the file system are the environment: every        *)
(* response and every write outcome is chosen nondeterministically.        *)
(* The export root is taken to be empty when the run starts, so dirs and   *)
(* the three file maps hold exactly what this run created.                 *)
(***************************************************************************)
EXTENDS Integers, Sequences, FiniteSets, TLC

\* Largest number of host records in one host.get result.
MaxHosts == 2

-----------------------------------------------------------------------------
(* JSON values as the Go code sees them after json.Unmarshal into          *)
(* interface{}: a string, or something on which .(string) fails.           *)

\* A key that is missing from a decoded map (data[key] is the nil interface).
Absent == "<absent>"
\* A value that is present but is not a JSON string (a number, an object...).
NonString == "<non-string>"

\* v.(string) succeeds
IsString(v) == v \notin {Absent, NonString}

-----------------------------------------------------------------------------
(* Responses of the remote API.  err: resty returned an error (transport   *)
(* failure or timeout); json: the body decodes into ZabbixResponse;        *)
(* code: ZabbixResponse.Error.Code; result: ZabbixResponse.Result.         *)

TransportFailure(noResult) == [err |-> TRUE, json |-> FALSE, code |-> 0, result |-> noResult]
Undecodable(noResult) == [err |-> FALSE, json |-> FALSE, code |-> 0, result |-> noResult]
Envelope(c, r) == [err |-> FALSE, json |-> TRUE, code |-> c, result |-> r]

\* Error codes an envelope may carry (0: the "error" member is absent).
ErrorCodes == {0, -32602}

\* user.login results: null/absent, a string (possibly empty), a non-string.
LoginNull == [kind |-> "null", str |-> ""]
LoginResults ==
    {LoginNull, [kind |-> "number", str |-> ""],
     [kind |-> "string", str |-> ""], [kind |-> "string", str |-> "0424bd59b807674191e7d77572075f33"]}

LoginResponses ==
    {TransportFailure(LoginNull), Undecodable(LoginNull)}
        \cup {Envelope(c, r) : c \in ErrorCodes, r \in LoginResults}

\* A host record of a host.get result.
HostRecord(n, a) ==
    [object |-> TRUE, hostid |-> "10084", name |-> n, ip |-> "127.0.0.1",
     status |-> "0", available |-> a, description |-> Absent,
     groups |-> <<[groupid |-> "2", name |-> "Linux servers"]>>,
     parentTemplates |-> <<>>]

\* Records whose projection succeeds: the raw availability flags "1", "0"
\* and another string, under two display names ("web", "db"); two records
\* of one result may carry the same name.
WellFormedRecords ==
    {HostRecord("web", "1"), HostRecord("web", "2"),
     [HostRecord("db", "0") EXCEPT !.description = "primary database"]}

\* Records on which one of the unchecked type assertions fails.
MalformedRecords ==
    {HostRecord("web", a) : a \in {Absent, NonString}}
        \cup {[HostRecord("web", "1") EXCEPT ![f] = Absent] :
                  f \in {"hostid", "name", "ip", "status"}}
        \cup {[HostRecord("web", "1") EXCEPT !.name = NonString],
              [HostRecord("web", "1") EXCEPT !.object = FALSE],
              [HostRecord("web", "1") EXCEPT !.groups = <<[groupid |-> "2", name |-> Absent]>>],
              [HostRecord("web", "1") EXCEPT
                   !.parentTemplates = <<[templateid |-> NonString, name |-> "Linux"]>>]}

HostRecords == WellFormedRecords \cup MalformedRecords

RECURSIVE SeqsUpTo(_, _)
\* All sequences over S of length at most n.
SeqsUpTo(S, n) ==
    IF n = 0 THEN {<<>>}
    ELSE LET shorter == SeqsUpTo(S, n - 1)
         IN  shorter \cup {Append(s, x) : s \in {t \in shorter : Len(t) = n - 1}, x \in S}

\* host.get results: null/absent, a list of records, anything else.
HostNull == [kind |-> "null", list |-> <<>>]
HostGetResponses ==
    {TransportFailure(HostNull), Undecodable(HostNull)}
        \cup {Envelope(c, HostNull) : c \in ErrorCodes}
        \cup {Envelope(0, [kind |-> "other", list |-> <<>>])}
        \cup {Envelope(0, [kind |-> "list", list |-> l]) : l \in SeqsUpTo(HostRecords, MaxHosts)}

\* item.get results.
GoodItem == [object |-> TRUE, itemid |-> "23296", name |-> "CPU load", key_ |-> "system.cpu.load", lastvalue |-> "0.25"]
ItemNull == [kind |-> "null", list |-> <<>>]
ItemGetResponses ==
    {TransportFailure(ItemNull), Undecodable(ItemNull)}
        \cup {Envelope(c, ItemNull) : c \in ErrorCodes}
        \cup {Envelope(0, [kind |-> "other", list |-> <<>>])}
        \cup {Envelope(0, [kind |-> "list", list |-> l]) :
                  l \in {<<>>, <<GoodItem>>, <<[GoodItem EXCEPT !.lastvalue = Absent]>>,
                         <<[GoodItem EXCEPT !.object = FALSE]>>}}

\* trigger.get results.
GoodTrigger == [object |-> TRUE, triggerid |-> "13491", description |-> "High CPU", priority |-> "3", status |-> "0"]
TriggerNull == [kind |-> "null", list |-> <<>>]
TriggerGetResponses ==
    {TransportFailure(TriggerNull), Undecodable(TriggerNull)}
        \cup {Envelope(0, TriggerNull)}
        \cup {Envelope(0, [kind |-> "other", list |-> <<>>])}
        \cup {Envelope(0, [kind |-> "list", list |-> l]) :
                  l \in {<<>>, <<[GoodTrigger EXCEPT !.priority = NonString]>>,
                         <<[GoodTrigger EXCEPT !.object = FALSE]>>}}

-----------------------------------------------------------------------------
(* The pure parts of the code.                                             *)

\* LoginFatal without the check of the envelope's error code.
LoginFatal_NoErrorCode(resp) ==
    \/ resp.err
    \/ ~resp.json
    \/ resp.result.kind # "string"
    \/ resp.result.str = ""

\* main, lines 126-143: the four checks on the login response; TRUE when
\* one of them calls log.Fatalf.
LoginFatal(resp) ==
    \/ resp.err
    \/ ~resp.json
    \/ resp.code # 0
    \/ resp.result.kind # "string"
    \/ resp.result.str = ""

\* HostGetOutcome with an empty host list treated as an error.
HostGetOutcome_EmptyFatal(resp) ==
    IF resp.err \/ ~resp.json THEN "fatal"
    ELSE IF resp.result.kind = "null" THEN "nohosts"
    ELSE IF resp.result.kind # "list" THEN "panic"
    ELSE IF Len(resp.result.list) = 0 THEN "fatal"
    ELSE "hosts"

\* HostGetOutcome with the envelope's error code checked as main does for
\* the login response.
HostGetOutcome_ChecksErrorCode(resp) ==
    IF resp.err \/ ~resp.json \/ resp.code # 0 THEN "fatal"
    ELSE IF resp.result.kind = "null" THEN "nohosts"
    ELSE IF resp.result.kind # "list" THEN "panic"
    ELSE IF Len(resp.result.list) = 0 THEN "nohosts"
    ELSE "hosts"

\* exportHostsWithDetails, lines 167-180: what the checks on the host.get
\* response lead to.  "fatal": log.Fatalf; "panic": the type assertion of
\* line 177 fails; "nohosts": logs and returns; "hosts": enters the loop.
HostGetOutcome(resp) ==
    IF resp.err \/ ~resp.json THEN "fatal"
    ELSE IF resp.result.kind = "null" THEN "nohosts"
    ELSE IF resp.result.kind # "list" THEN "panic"
    ELSE IF Len(resp.result.list) = 0 THEN "nohosts"
    ELSE "hosts"

\* lines 184-189: the availability label of a record whose flag is a string.
Availability(data) ==
    IF data.available = "1" THEN "Available"
    ELSE IF data.available = "0" THEN "Unavailable"
    ELSE "Unknown"

\* lines 203-221: an element of groups / parentTemplates that makes a type
\* assertion fail.
BadEntries(list, idField) ==
    \E i \in 1..Len(list) : ~IsString(list[i][idField]) \/ ~IsString(list[i].name)

\* ProjectPanics with the status read defensively, as getStringFromMap would.
ProjectPanics_LenientStatus(data) ==
    \/ ~data.object
    \/ ~IsString(data.available)
    \/ ~IsString(data.hostid)
    \/ ~IsString(data.name)
    \/ ~IsString(data.ip)
    \/ BadEntries(data.groups, "groupid")
    \/ BadEntries(data.parentTemplates, "templateid")

\* lines 183-221: TRUE when projecting the record panics (a failed
\* single-value type assertion or an index out of range ends the process).
ProjectPanics(data) ==
    \/ ~data.object
    \/ ~IsString(data.available)
    \/ ~IsString(data.hostid)
    \/ ~IsString(data.name)
    \/ ~IsString(data.ip)
    \/ ~IsString(data.status)
    \/ BadEntries(data.groups, "groupid")
    \/ BadEntries(data.parentTemplates, "templateid")

\* lines 191-221: the Host built from a record whose projection succeeds.
ProjectHost(data) ==
    [HostID |-> data.hostid,
     HostName |-> data.name,
     IPAddress |-> data.ip,
     Status |-> data.status,
     Availability |-> Availability(data),
     Notes |-> IF IsString(data.description) THEN data.description ELSE "",
     Groups |-> [i \in 1..Len(data.groups) |->
                    [GroupID |-> data.groups[i].groupid, Name |-> data.groups[i].name]],
     Templates |-> [i \in 1..Len(data.parentTemplates) |->
                       [TemplateID |-> data.parentTemplates[i].templateid,
                        Name |-> data.parentTemplates[i].name]]]

\* MetricsOutcome with a failed fetch or decode ending the process
\* (log.Fatalf where the code has log.Printf and return).
MetricsOutcome_FatalOnError(resp) ==
    IF resp.err \/ ~resp.json THEN "panic"
    ELSE IF resp.result.kind # "list" THEN "panic"
    ELSE IF \E i \in 1..Len(resp.result.list) :
                LET d == resp.result.list[i]
                IN  \/ ~d.object
                    \/ ~IsString(d.itemid) \/ ~IsString(d.name)
                    \/ ~IsString(d.key_) \/ ~IsString(d.lastvalue)
         THEN "panic"
    ELSE "save"

\* exportMetricsForHost, lines 252-274: "return": logged, returns early;
\* "panic": a type assertion of lines 265-271 fails; "save": reaches
\* saveToJSON.
MetricsOutcome(resp) ==
    IF resp.err \/ ~resp.json THEN "return"
    ELSE IF resp.result.kind # "list" THEN "panic"
    ELSE IF \E i \in 1..Len(resp.result.list) :
                LET d == resp.result.list[i]
                IN  \/ ~d.object
                    \/ ~IsString(d.itemid) \/ ~IsString(d.name)
                    \/ ~IsString(d.key_) \/ ~IsString(d.lastvalue)
         THEN "panic"
    ELSE "save"

\* lines 264-274: the metrics written to metrics.json.
Metrics(resp) ==
    [i \in 1..Len(resp.result.list) |->
        LET d == resp.result.list[i]
        IN  [ItemID |-> d.itemid, Name |-> d.name, Key |-> d.key_, Value |-> d.lastvalue]]

\* getStringFromMap, lines 335-342.
getStringFromMap(data, key) == IF IsString(data[key]) THEN data[key] ELSE ""

\* TriggersOutcome with "no triggers" also said of an empty list.
TriggersOutcome_EmptyReturns(resp) ==
    IF resp.err \/ ~resp.json THEN "return"
    ELSE IF resp.result.kind = "null" THEN "return"
    ELSE IF resp.result.kind # "list" THEN "panic"
    ELSE IF Len(resp.result.list) = 0 THEN "return"
    ELSE IF \E i \in 1..Len(resp.result.list) : ~resp.result.list[i].object THEN "panic"
    ELSE "save"

\* exportTriggersForHost, lines 295-327: "return": logged, returns early;
\* "panic": a type assertion of lines 318-319 fails; "save": reaches saveToJSON.
TriggersOutcome(resp) ==
    IF resp.err \/ ~resp.json THEN "return"
    ELSE IF resp.result.kind = "null" THEN "return"
    ELSE IF resp.result.kind # "list" THEN "panic"
    ELSE IF \E i \in 1..Len(resp.result.list) : ~resp.result.list[i].object THEN "panic"
    ELSE "save"

\* lines 317-327: the triggers written to triggers.json.
Triggers(resp) ==
    [i \in 1..Len(resp.result.list) |->
        LET d == resp.result.list[i]
        IN  [TriggerID |-> getStringFromMap(d, "triggerid"),
             Description |-> getStringFromMap(d, "description"),
             Priority |-> getStringFromMap(d, "priority"),
             Status |-> getStringFromMap(d, "status")]]

\* NextStep with the two export calls of lines 231-232 exchanged.
NextStep_TriggersFirst(p) ==
    CASE p = "loop" -> "triggers"
      [] p = "triggers" -> "metrics"
      [] p = "metrics" -> "loop"

\* NextStep with the metric fetch done again after it returns.
NextStep_Retry(p) ==
    CASE p = "loop" -> "metrics"
      [] p = "metrics" -> "metrics"
      [] p = "triggers" -> "loop"

\* The statement that follows each of the three per-host steps (lines
\* 228-233): host.xml, then the metrics, then the triggers, then the next
\* record.
NextStep(p) ==
    CASE p = "loop" -> "metrics"
      [] p = "metrics" -> "triggers"
      [] p = "triggers" -> "loop"

-----------------------------------------------------------------------------
(* The run.                                                                *)

VARIABLES
    pc,           \* the statement main() is at
    exit,         \* "running", "normal" (main returned), "fatal" (log.Fatal or panic)
    authResult,   \* the responses received to user.login (at most one)
    result,       \* the responses received to host.get (at most one)
    cur,          \* index of the record the loop of line 182 is at
    itemResult,   \* the responses received to item.get, in order
    triggerResult,\* the responses received to trigger.get, in order
    dirs,         \* host directories created under <root>/hosts/
    hostXml,      \* directory name -> Host written to its host.xml
    metricsJson,  \* directory name -> metrics written to its metrics.json
    triggersJson, \* directory name -> triggers written to its triggers.json
    exported,     \* the Hosts handed to saveToXML and written, in order
    trace         \* every request sent, every directory creation and every file
                  \* written or failed to be written (saveToXML/saveToJSON), in order

vars == <<pc, exit, authResult, result, cur, itemResult, triggerResult,
          dirs, hostXml, metricsJson, triggersJson, exported, trace>>

remote == <<authResult, result, itemResult, triggerResult>>
disk == <<dirs, hostXml, metricsJson, triggersJson, exported>>

\* An event of the trace: op is a method name, "mkdir" (os.MkdirAll was
\* called), a file name (the file was written) or "write error"; host
\* is the index of the record it is for (0 for the two calls before the loop).
Event(op, i) == [op |-> op, host |-> i]

\* A map with no entries.
NoFiles == [n \in {} |-> <<>>]

\* os.WriteFile to name/<file>: the map with that file (over)written.
WriteFile(files, name, data) ==
    [n \in DOMAIN files \cup {name} |-> IF n = name THEN data ELSE files[n]]

\* The records of the host.get result the loop ranges over.
Hosts == IF Len(result) = 0 THEN <<>> ELSE result[1].result.list

Init ==
    /\ pc = "start"
    /\ exit = "running"
    /\ authResult = <<>>
    /\ result = <<>>
    /\ cur = 0
    /\ itemResult = <<>>
    /\ triggerResult = <<>>
    /\ dirs = {}
    /\ hostXml = NoFiles
    /\ metricsJson = NoFiles
    /\ triggersJson = NoFiles
    /\ exported = <<>>
    /\ trace = <<>>

\* log.Fatal, log.Fatalf or a panic: the process ends where it stands.
Fatal == exit' = "fatal" /\ UNCHANGED <<pc, cur>>

\* main, lines 100-111: godotenv.Load; fatal when the .env file cannot be loaded.
LoadEnv ==
    /\ exit = "running" /\ pc = "start"
    /\ \E loaded \in BOOLEAN :
          IF loaded THEN pc' = "login" /\ UNCHANGED <<exit, cur>> ELSE Fatal
    /\ UNCHANGED <<remote, disk, trace>>

\* main, lines 113-143: the login exchange and the checks on its response.
Login ==
    /\ exit = "running" /\ pc = "login"
    /\ \E resp \in LoginResponses :
          /\ authResult' = Append(authResult, resp)
          /\ IF LoginFatal(resp) THEN Fatal
             ELSE pc' = "hostget" /\ UNCHANGED <<exit, cur>>
    /\ trace' = Append(trace, Event("user.login", 0))
    /\ UNCHANGED <<result, itemResult, triggerResult, disk>>

\* exportHostsWithDetails, lines 151-180: the host.get exchange up to the
\* entry of the loop.
HostGet ==
    /\ exit = "running" /\ pc = "hostget"
    /\ \E resp \in HostGetResponses :
          /\ result' = Append(result, resp)
          /\ CASE HostGetOutcome(resp) \in {"fatal", "panic"} -> Fatal
               [] HostGetOutcome(resp) = "nohosts" ->
                      pc' = "return" /\ UNCHANGED <<exit, cur>>
               [] HostGetOutcome(resp) = "hosts" ->
                      pc' = "loop" /\ cur' = 1 /\ UNCHANGED exit
    /\ trace' = Append(trace, Event("host.get", 0))
    /\ UNCHANGED <<authResult, itemResult, triggerResult, disk>>

\* The loop moves on: to the next of the three steps of this record, or to
\* the next record.
Advance ==
    /\ pc' = NextStep(pc)
    /\ cur' = IF NextStep(pc) = "loop" THEN cur + 1 ELSE cur
    /\ UNCHANGED exit

\* exportHostsWithDetails, lines 182-228: one record is projected, its
\* directory created (the error of os.MkdirAll is ignored) and host.xml
\* written by saveToXML, which is fatal when the write fails.  The write can
\* only succeed in a directory that exists.
ExportHost ==
    /\ exit = "running" /\ pc = "loop" /\ cur <= Len(Hosts)
    /\ IF ProjectPanics(Hosts[cur])
       THEN Fatal /\ UNCHANGED <<disk, trace>>
       ELSE \E made \in BOOLEAN, wrote \in BOOLEAN :
               LET host == ProjectHost(Hosts[cur])
                   hostDir == host.HostName
                   dirsNow == IF made THEN dirs \cup {hostDir} ELSE dirs
                   saved == wrote /\ hostDir \in dirsNow
               IN  /\ dirs' = dirsNow
                   /\ IF saved
                      THEN /\ hostXml' = WriteFile(hostXml, hostDir, host)
                           /\ exported' = Append(exported, host)
                           /\ trace' = trace \o <<Event("mkdir", cur), Event("host.xml", cur)>>
                           /\ Advance
                      ELSE /\ trace' = trace \o <<Event("mkdir", cur), Event("write error", cur)>>
                           /\ Fatal
                           /\ UNCHANGED <<hostXml, exported>>
                   /\ UNCHANGED <<metricsJson, triggersJson>>
    /\ UNCHANGED remote

\* The directory of the record the loop is at.
HostDir == ProjectHost(Hosts[cur]).HostName

\* exportMetricsForHost, lines 237-278.
ExportMetrics ==
    /\ exit = "running" /\ pc = "metrics"
    /\ \E resp \in ItemGetResponses, wrote \in BOOLEAN :
          /\ itemResult' = Append(itemResult, resp)
          /\ CASE MetricsOutcome(resp) = "return" ->
                      /\ trace' = Append(trace, Event("item.get", cur))
                      /\ Advance
                      /\ UNCHANGED metricsJson
               [] MetricsOutcome(resp) = "panic" ->
                      /\ trace' = Append(trace, Event("item.get", cur))
                      /\ Fatal
                      /\ UNCHANGED metricsJson
               [] MetricsOutcome(resp) = "save" /\ wrote ->
                      /\ metricsJson' = WriteFile(metricsJson, HostDir, Metrics(resp))
                      /\ trace' = trace \o <<Event("item.get", cur), Event("metrics.json", cur)>>
                      /\ Advance
               [] MetricsOutcome(resp) = "save" /\ ~wrote ->
                      /\ trace' = trace \o <<Event("item.get", cur), Event("write error", cur)>>
                      /\ Fatal
                      /\ UNCHANGED metricsJson
    /\ UNCHANGED <<authResult, result, triggerResult, dirs, hostXml, triggersJson, exported>>

\* exportTriggersForHost, lines 280-332.
ExportTriggers ==
    /\ exit = "running" /\ pc = "triggers"
    /\ \E resp \in TriggerGetResponses, wrote \in BOOLEAN :
          /\ triggerResult' = Append(triggerResult, resp)
          /\ CASE TriggersOutcome(resp) = "return" ->
                      /\ trace' = Append(trace, Event("trigger.get", cur))
                      /\ Advance
                      /\ UNCHANGED triggersJson
               [] TriggersOutcome(resp) = "panic" ->
                      /\ trace' = Append(trace, Event("trigger.get", cur))
                      /\ Fatal
                      /\ UNCHANGED triggersJson
               [] TriggersOutcome(resp) = "save" /\ wrote ->
                      /\ triggersJson' = WriteFile(triggersJson, HostDir, Triggers(resp))
                      /\ trace' = trace \o <<Event("trigger.get", cur), Event("triggers.json", cur)>>
                      /\ Advance
               [] TriggersOutcome(resp) = "save" /\ ~wrote ->
                      /\ trace' = trace \o <<Event("trigger.get", cur), Event("write error", cur)>>
                      /\ Fatal
                      /\ UNCHANGED triggersJson
    /\ UNCHANGED <<authResult, result, itemResult, dirs, hostXml, metricsJson, exported>>

\* exportHostsWithDetails, lines 233-235: the loop is over, the function returns.
LoopEnd ==
    /\ exit = "running" /\ pc = "loop" /\ cur > Len(Hosts)
    /\ pc' = "return"
    /\ UNCHANGED <<exit, cur, remote, disk, trace>>

\* main, lines 145-148: exportHostsWithDetails has returned; main prints and returns.
MainReturn ==
    /\ exit = "running" /\ pc = "return"
    /\ exit' = "normal"
    /\ UNCHANGED <<pc, cur, remote, disk, trace>>

Next ==
    \/ LoadEnv
    \/ Login
    \/ HostGet
    \/ ExportHost
    \/ ExportMetrics
    \/ ExportTriggers
    \/ LoopEnd
    \/ MainReturn

Spec == Init /\ [][Next]_vars

-----------------------------------------------------------------------------
(* What the claims speak of.                                               *)

\* The events that happened.
Done == {trace[k] : k \in 1..Len(trace)}

\* The event happened.
Has(op, i) == Event(op, i) \in Done

\* The remote methods.
Methods == {"user.login", "host.get", "item.get", "trigger.get"}

\* The requests sent so far.
Requests == SelectSeq(trace, LAMBDA e : e.op \in Methods)

\* The response was received and its body decoded into the envelope.
Decoded(resp) == ~resp.err /\ resp.json

\* Nothing was exported: no directory, no file, no per-host request.
NothingExported ==
    /\ dirs = {}
    /\ DOMAIN hostXml = {} /\ DOMAIN metricsJson = {} /\ DOMAIN triggersJson = {}
    /\ exported = <<>>
    /\ itemResult = <<>> /\ triggerResult = <<>>
    /\ \A k \in 1..Len(trace) : trace[k].op \in {"user.login", "host.get"}

-----------------------------------------------------------------------------
\* C3: when the login exchange fails (transport failure, undecodable body,
\* non-zero error code, or a result that is absent, not a string or the
\* empty string) the process is dead right after it: the login request is
\* the only request ever sent, host.get is never sent, and no directory or
\* file is created.
C3_LoginFailureIsFatal ==
    (/\ Len(authResult) = 1
     /\ \/ authResult[1].err
        \/ ~authResult[1].json
        \/ authResult[1].code # 0
        \/ authResult[1].result.kind \in {"null", "number"}
        \/ authResult[1].result = [kind |-> "string", str |-> ""])
    => /\ exit = "fatal"
       /\ trace = <<Event("user.login", 0)>>
       /\ result = <<>>
       /\ NothingExported

\* C3 witness: the login response carries a non-zero error code next to a
\* usable token, and the process is dead.
C3_Witness ==
    /\ Len(authResult) = 1
    /\ Decoded(authResult[1])
    /\ authResult[1].code # 0
    /\ authResult[1].result.kind = "string" /\ authResult[1].result.str # ""
    /\ exit = "fatal"

\* C5: when host.get returns an empty list, nothing is exported, no item.get
\* or trigger.get is sent, and the run goes straight to main's return: it is
\* never fatal.
C5_ZeroHostsIsNormal ==
    (/\ Len(result) = 1
     /\ Decoded(result[1])
     /\ result[1].result.kind = "list"
     /\ Len(result[1].result.list) = 0)
    => /\ NothingExported
       /\ exit # "fatal"
       /\ pc = "return"

\* C5 witness: the run has ended normally after an empty host list.
C5_Witness ==
    /\ Len(result) = 1
    /\ Decoded(result[1])
    /\ result[1].result.kind = "list"
    /\ Len(result[1].result.list) = 0
    /\ exit = "normal"

\* C10: when host.get returns a decodable envelope whose result is null or
\* absent, whatever its error code, nothing is exported, no item.get or
\* trigger.get is sent, and the run goes to main's return: it is never fatal.
C10_NullHostResultIsNormal ==
    (/\ Len(result) = 1
     /\ Decoded(result[1])
     /\ result[1].result.kind = "null")
    => /\ NothingExported
       /\ exit # "fatal"
       /\ pc = "return"

\* C10 witness: the run has ended normally after an error envelope.
C10_Witness ==
    /\ Len(result) = 1
    /\ Decoded(result[1])
    /\ result[1].code # 0
    /\ result[1].result.kind = "null"
    /\ exit = "normal"

-----------------------------------------------------------------------------
\* The number of records host.get returned.
N == Len(Hosts)

\* host.get returned at least one record and the loop was entered.
HostsReturned ==
    /\ Len(result) = 1
    /\ Decoded(result[1])
    /\ result[1].result.kind = "list"
    /\ N >= 1

\* Record i has been completely processed: the loop has moved past it.
Processed(i) == i < cur

\* The item.get response for record i was received and decoded.
ItemDecoded(i) == i <= Len(itemResult) /\ Decoded(itemResult[i])

\* The trigger.get response for record i was received and decoded, and its
\* result is not null.
TriggerNonNull(i) ==
    /\ i <= Len(triggerResult)
    /\ Decoded(triggerResult[i])
    /\ triggerResult[i].result.kind # "null"

\* C1 as stated, for the runs that end normally (the successful runs): at
\* the end of a run in which login and host.get succeed and host.get
\* returns N >= 1 records, exactly N host directories exist, each with
\* host.xml and metrics.json, and with triggers.json unless the trigger.get
\* result for that host was null.
C1_Claim ==
    (HostsReturned /\ exit = "normal")
    => /\ Cardinality(dirs) = N
       /\ \A i \in 1..N :
             /\ Hosts[i].name \in dirs
             /\ Hosts[i].name \in DOMAIN hostXml
             /\ Hosts[i].name \in DOMAIN metricsJson
             /\ \/ Hosts[i].name \in DOMAIN triggersJson
                \/ /\ i <= Len(triggerResult)
                   /\ Decoded(triggerResult[i])
                   /\ triggerResult[i].result.kind = "null"

\* C1 amended: in every run in which host.get returns N >= 1 records, host
\* directories exist only under the display names of the records the loop
\* has reached; every record the loop has moved past has its directory and
\* its host.xml, had metrics.json written exactly when its item.get
\* response was received and decoded, and had triggers.json written exactly
\* when its trigger.get response was received, decoded and not null; and a
\* run that ends normally has moved past all N records.
C1_FilesOfProcessedHosts ==
    LET done == Done
    IN
        HostsReturned
        => /\ dirs \subseteq {Hosts[i].name : i \in 1..(IF cur < N THEN cur ELSE N)}
           /\ DOMAIN hostXml \subseteq dirs
           /\ DOMAIN metricsJson \subseteq DOMAIN hostXml
           /\ DOMAIN triggersJson \subseteq DOMAIN hostXml
           /\ \A i \in 1..N :
                 Processed(i) =>
                    /\ Hosts[i].name \in dirs
                    /\ Event("host.xml", i) \in done /\ Hosts[i].name \in DOMAIN hostXml
                    /\ Event("metrics.json", i) \in done <=> ItemDecoded(i)
                    /\ Event("metrics.json", i) \in done => Hosts[i].name \in DOMAIN metricsJson
                    /\ Event("triggers.json", i) \in done <=> TriggerNonNull(i)
                    /\ Event("triggers.json", i) \in done => Hosts[i].name \in DOMAIN triggersJson
           /\ exit = "normal" => \A i \in 1..N : Processed(i)

\* C1 witness: a run over two hosts of different names has ended normally;
\* the first host's metric fetch failed and the second host's trigger
\* result was null, so those two files are missing.
C1_Witness ==
    /\ HostsReturned /\ N = 2 /\ exit = "normal"
    /\ Cardinality(dirs) = 2
    /\ ~ItemDecoded(1) /\ Hosts[1].name \notin DOMAIN metricsJson
    /\ ~TriggerNonNull(2) /\ Hosts[2].name \notin DOMAIN triggersJson
    /\ Hosts[2].name \in DOMAIN metricsJson
    /\ Hosts[1].name \in DOMAIN triggersJson

-----------------------------------------------------------------------------
\* The label the specification gives a raw availability flag.
LabelOf(flag) ==
    IF flag = "1" THEN "Available"
    ELSE IF flag = "0" THEN "Unavailable"
    ELSE "Unknown"

\* The loop has executed its body for record i.
Attempted(i) == cur > i \/ (cur = i /\ (pc # "loop" \/ exit = "fatal"))

\* C2 as stated: every host record the loop comes to, whatever its
\* "available" flag (a string, a non-string, or absent), is projected and
\* exported (the run goes on to create its directory), and the Host written
\* carries Available for "1", Unavailable for "0" and Unknown otherwise.
\* Records with another malformed field are left out of the statement.
C2_Claim ==
    \A i \in 1..N :
        (Attempted(i) /\ ~ProjectPanics([Hosts[i] EXCEPT !.available = "1"]))
        => /\ Has("mkdir", i)
           /\ Has("host.xml", i) => exported[i].Availability = LabelOf(Hosts[i].available)

-----------------------------------------------------------------------------
\* C4: a failed item.get (transport or decode error) writes no metrics.json
\* for that record and does not end the process: trigger.get for the same
\* record is the next thing to happen.  A failed trigger.get (transport or
\* decode error, or a null result) writes no triggers.json for that record
\* and does not end the process: the loop moves on to the next record.
C4_SubResourceFailuresContinue ==
    LET done == Done
    IN
        /\ \A i \in 1..Len(itemResult) :
              ~Decoded(itemResult[i])
              => /\ ~Event("metrics.json", i) \in done
                 /\ (\A j \in 1..N : j # i => Hosts[j].name # Hosts[i].name)
                       => Hosts[i].name \notin DOMAIN metricsJson
                 /\ \/ pc = "triggers" /\ cur = i /\ exit = "running"
                    \/ Event("trigger.get", i) \in done
        /\ \A i \in 1..Len(triggerResult) :
              (~Decoded(triggerResult[i]) \/ triggerResult[i].result.kind = "null")
              => /\ ~Event("triggers.json", i) \in done
                 /\ (\A j \in 1..N : j # i => Hosts[j].name # Hosts[i].name)
                       => Hosts[i].name \notin DOMAIN triggersJson
                 /\ cur > i
                 /\ \/ pc = "loop" /\ cur = i + 1 /\ exit = "running"
                    \/ Event("mkdir", i + 1) \in done
                    \/ cur = i + 1 /\ i < N /\ exit = "fatal" /\ ProjectPanics(Hosts[i + 1])
                    \/ i = N /\ pc = "return"

\* C4 witness: the first host's item.get failed in transport and its
\* trigger.get returned null; the second host was exported with both files
\* and the run ended normally.
C4_Witness ==
    /\ N = 2 /\ exit = "normal"
    /\ itemResult[1].err
    /\ Decoded(triggerResult[1]) /\ triggerResult[1].result.kind = "null"
    /\ Has("metrics.json", 2) /\ Has("triggers.json", 2)

-----------------------------------------------------------------------------
\* The per-host steps in the order the claim gives them.
StepOrder == <<"mkdir", "host.xml", "item.get", "metrics.json", "trigger.get", "triggers.json">>

\* The per-host steps.
StepOps == {StepOrder[k] : k \in 1..Len(StepOrder)}

\* The place of a step in that order.
StepIndex == [op \in StepOps |-> CHOOSE k \in 1..Len(StepOrder) : StepOrder[k] = op]

\* The per-host steps taken so far, in the order they were taken.
Steps == SelectSeq(trace, LAMBDA e : e.op \in StepOps)

\* C6: each per-host step comes after the one taken before it (so the steps
\* are in order throughout): they happen host by host in the order of the host.get
\* result, and within a host in the order directory, host.xml, item.get,
\* metrics.json, trigger.get, triggers.json; no step of a host is taken
\* before the host before it has had its host.xml written and both its
\* fetches made; the k-th Host written is the projection of the k-th record.
C6_StrictlySequential ==
    LET steps == Steps
        done == Done
    IN  /\ \A k \in 1..(Len(steps) - 1) :
              \/ steps[k].host < steps[k + 1].host
              \/ /\ steps[k].host = steps[k + 1].host
                 /\ StepIndex[steps[k].op] < StepIndex[steps[k + 1].op]
        /\ \A k \in 1..Len(steps) :
              /\ steps[k].host \in 1..N
              /\ steps[k].host > 1 =>
                    /\ Event("host.xml", steps[k].host - 1) \in done
                    /\ Event("item.get", steps[k].host - 1) \in done
                    /\ Event("trigger.get", steps[k].host - 1) \in done
        /\ \A k \in 1..Len(exported) : exported[k] = ProjectHost(Hosts[k])

\* C6 witness: the first host went through all six steps and the second
\* host's export has begun.
C6_Witness ==
    /\ \A k \in 1..Len(StepOrder) : Has(StepOrder[k], 1)
    /\ Has("item.get", 2)

-----------------------------------------------------------------------------
\* C7 as stated: once an item.get response is received and decoded,
\* whatever its result, metrics.json is written for that host (unless the
\* file system refuses the write) and the run goes on to the trigger fetch.
C7_Claim ==
    \A i \in 1..Len(itemResult) :
        Decoded(itemResult[i])
        => \/ Has("write error", i)
           \/ /\ Has("metrics.json", i)
              /\ \/ pc = "triggers" /\ cur = i /\ exit = "running"
                 \/ Has("trigger.get", i)

-----------------------------------------------------------------------------
\* How often a request was sent.
Sent(op, i) == Cardinality({k \in 1..Len(trace) : trace[k] = Event(op, i)})

\* An upper bound on the number of steps the run has left.
Measure ==
    IF exit # "running" THEN 0
    ELSE CASE pc = "start" -> 3 * MaxHosts + 5
           [] pc = "login" -> 3 * MaxHosts + 4
           [] pc = "hostget" -> 3 * MaxHosts + 3
           [] pc = "loop" -> 3 * (N - cur + 1) + 2
           [] pc = "metrics" -> 3 * (N - cur + 1) + 1
           [] pc = "triggers" -> 3 * (N - cur + 1)
           [] pc = "return" -> 1

\* The state part of C8.
C8_AtMostOnce ==
    /\ Sent("user.login", 0) <= 1
    /\ Sent("host.get", 0) <= 1
    /\ \A i \in 1..N : Sent("item.get", i) <= 1 /\ Sent("trigger.get", i) <= 1
    /\ \A k \in 1..Len(Requests) :
          \/ Requests[k].op \in {"user.login", "host.get"} /\ Requests[k].host = 0
          \/ Requests[k].op \in {"item.get", "trigger.get"} /\ Requests[k].host \in 1..N
    /\ Len(Requests) <= 2 + 2 * N
    /\ Len(itemResult) <= N /\ Len(triggerResult) <= N
    /\ Measure >= 0
    /\ exit = "running" => ENABLED Next

\* C8: user.login and host.get are each sent at most once, item.get and
\* trigger.get at most once per host record, so at most 2 + 2N requests are
\* sent; and every run terminates: a running process always has a next
\* step, and every step strictly lowers a bound on the steps that are left.
C8_NoRetryAndTerminates ==
    /\ []C8_AtMostOnce
    /\ [][Measure' < Measure]_vars

\* C8 witness: a run over the largest host list has ended normally having
\* sent all 2 + 2N requests.
C8_Witness ==
    /\ exit = "normal"
    /\ N >= 2
    /\ Len(Requests) = 2 + 2 * N

-----------------------------------------------------------------------------
\* One of the four fields the claim names is missing or is not a string.
RequiredFieldBad(data) ==
    \E f \in {"hostid", "name", "status", "ip"} : data[f] \in {Absent, NonString}

\* C9: when the k-th record has a missing or non-string hostid, name,
\* status or first-interface ip, the loop never gets past record k and is
\* dead once it has tried it; no directory, file or request is ever
\* produced for record k or a later one; what was written for the records
\* before k stays; and the records that have a host.xml are always the
\* first ones of the enumeration.
C9_NoPerHostIsolation ==
    LET done == Done
    IN
        /\ \A k \in 1..N :
              RequiredFieldBad(Hosts[k])
              => /\ cur <= k
                 /\ cur = k => pc = "loop" /\ exit \in {"running", "fatal"}
                 /\ Attempted(k) => exit = "fatal"
                 /\ \A e \in 1..Len(trace) : trace[e].host < k
                 /\ Len(exported) < k /\ Len(itemResult) < k /\ Len(triggerResult) < k
                 /\ Attempted(k) =>
                       \A i \in 1..(k - 1) :
                          /\ Event("host.xml", i) \in done
                          /\ Hosts[i].name \in DOMAIN hostXml
                          /\ Event("metrics.json", i) \in done => Hosts[i].name \in DOMAIN metricsJson
                          /\ Event("triggers.json", i) \in done => Hosts[i].name \in DOMAIN triggersJson
        /\ \A i \in 1..N : Event("host.xml", i) \in done => \A j \in 1..i : Event("host.xml", j) \in done

\* C9 witness: the run died on a second record without a status, after the
\* first host was exported with all three files.
C9_Witness ==
    /\ N = 2 /\ cur = 2 /\ exit = "fatal"
    /\ Hosts[2].status = Absent
    /\ Has("host.xml", 1) /\ Has("metrics.json", 1) /\ Has("triggers.json", 1)
    /\ DOMAIN hostXml = {Hosts[1].name}

====
